---- MODULE Spec2Model ----
(***************************************************************************)
(* Model of snappychain: the ComponentRegistry (registry.py), a process    *)
(* wide keyed cache with time based eviction and its creation from the     *)
(* environment; the BM25SJ retriever with save and load; and the Rag       *)
(* (rag.py) with its write lock, its queries and batch_query.              *)
(*                                                                         *)
(* Time is counted in whole hours (the unit of lru_hours); one handler     *)
(* reads the clock once per hour tick, so the two datetime.now() reads of  *)
(* a handler see the same hour.  The retention lru_hours is a duration:    *)
(* zero or more hours.                                                     *)
(***************************************************************************)
EXTENDS Integers, Sequences, FiniteSets, TLC

(* ----------------------------- bounds ---------------------------------- *)
MaxTime == 3        \* the clock runs from 0 to MaxTime
MaxLru == 1         \* lru_hours is drawn from 0..MaxLru
MaxCreated == 2     \* constructions performed by get_model / get_prompt
MaxThreads == 2     \* concurrent callers of get_model
MaxEnvLen == 2      \* characters in the value of CHAIN_CACHE_LRU_HOUR
MaxDocs == 2        \* documents held by a retriever
MaxK == 2           \* retriever.k is drawn from 1..MaxK
MaxQuestions == 2   \* questions given to one batch_query call
MaxObjs == 3        \* runnables alive at once: the values id() can take
MaxAllocs == 3      \* runnables created in one run

(* ------------------------- values and keys ----------------------------- *)
\* JSON-able parameter data: a string scalar, a list, or an insertion
\* ordered dict given as a sequence of <<name, value>> pairs.
S(s) == [tag |-> "s", s |-> s, items |-> <<>>]
L(items) == [tag |-> "l", s |-> "", items |-> items]
D(pairs) == [tag |-> "d", s |-> "", items |-> pairs]

\* Dict key names in Python string order.
NameOrder == <<"a", "b", "model_name", "opts", "type">>
NameRank(n) == CHOOSE i \in 1..Len(NameOrder) : NameOrder[i] = n

\* Every token a serialisation of the model's inputs can contain.
TokenAlphabet ==
  <<"{", "}", "[", "]", ":", ",", "\"",
    "a", "b", "model_name", "opts", "type",
    "openai", "ollama", "bogus", "m1", "1", "2", "system", "human", "hi", "you are">>
TokenCode(tok) == CHOOSE i \in 1..Len(TokenAlphabet) : TokenAlphabet[i] = tok

\* A mutation of SortPairs: the pairs stay in insertion order.
SortPairsKeepOrder(pairs) == pairs

RECURSIVE SortPairs(_)
\* sort_keys=True: the pairs of one dict in ascending order of their names
SortPairs(pairs) ==
  IF pairs = <<>> THEN <<>>
  ELSE LET i == CHOOSE i \in 1..Len(pairs) :
                  \A j \in 1..Len(pairs) : NameRank(pairs[i][1]) <= NameRank(pairs[j][1])
           rest == [j \in 1..(Len(pairs) - 1) |-> IF j < i THEN pairs[j] ELSE pairs[j + 1]]
       IN <<pairs[i]>> \o SortPairs(rest)

RECURSIVE JsonDumps(_)
RECURSIVE JsonItems(_, _)
\* json.dumps(data, sort_keys=True) as a token sequence
JsonDumps(v) ==
  CASE v.tag = "s" -> <<"\"", v.s, "\"">>
    [] v.tag = "l" -> <<"[">> \o JsonItems(v.items, FALSE) \o <<"]">>
    [] v.tag = "d" -> <<"{">> \o JsonItems(SortPairs(v.items), TRUE) \o <<"}">>

JsonItems(items, isDict) ==
  IF items = <<>> THEN <<>>
  ELSE LET one == IF isDict
                  THEN <<"\"", items[1][1], "\"", ":">> \o JsonDumps(items[1][2])
                  ELSE JsonDumps(items[1])
       IN one \o (IF Len(items) = 1 THEN <<>> ELSE <<",">> \o JsonItems(Tail(items), isDict))

HashMod == 1000003
RECURSIVE Md5Hex16(_)
\* hashlib.md5(data_str.encode()).hexdigest()[:16]: a fixed-width digest of
\* the string, read as a number (fixed-width hex strings order as numbers)
Md5Hex16(toks) ==
  IF toks = <<>> THEN 7
  ELSE (Md5Hex16(SubSeq(toks, 1, Len(toks) - 1)) * 31 + TokenCode(toks[Len(toks)])) % HashMod

generate_id(data) ==
  LET data_str == IF data.tag \in {"d", "l"} THEN JsonDumps(data) ELSE <<data.s>>
  IN Md5Hex16(data_str)

\* Registry keys.  A Python key is a 2-tuple (k0, k1) or a plain string;
\* ty is the Python type of k1: "int" (step index), "str" (hex id), or
\* "none" when the key is not a tuple.
ChainKey(chain_id, index) == [k0 |-> chain_id, ty |-> "int", k1 |-> index]
IdKey(kind, id) == [k0 |-> kind, ty |-> "str", k1 |-> id]
StrKey(s) == [k0 |-> s, ty |-> "none", k1 |-> 0]
IsTuple2(key) == key.ty # "none"

(* ------------------------------ inputs --------------------------------- *)
ChainIds == {"c1", "model"}
\* (chain_id, index) arguments of the chain scoped calls
ChainSteps == {<<"c1", 0>>, <<"c1", 1>>, <<"model", 0>>}
UserObjs == {-1, -2}      \* objects a caller hands to set_chain_object
\* (chain_id, index, obj) arguments of the set_chain_object calls
SetInputs == {<<"c1", 0, -1>>, <<"c1", 0, -2>>, <<"c1", 1, -1>>, <<"model", 0, -2>>}
ParserObjs == {-3}        \* the parser object output() stores under its string key
ParserKeys == {StrKey("output_parser_text")}
ModelTypes == {"openai", "bogus"}

Opts12 == D(<< <<"a", S("1")>>, <<"b", S("2")>> >>)
Opts21 == D(<< <<"b", S("2")>>, <<"a", S("1")>> >>)
\* kwargs of get_model calls, in insertion order
Kwargs1 == << <<"model_name", S("m1")>>, <<"opts", Opts12>> >>
KwargsInputs ==
  { Kwargs1,
    << <<"opts", Opts12>>, <<"model_name", S("m1")>> >>,
    << <<"model_name", S("m1")>>, <<"opts", Opts21>> >>,
    << <<"opts", Opts21>>, <<"model_name", S("m1")>> >>,
    << <<"model_name", S("m1")>> >> }
MessagesInputs ==
  { L(<< L(<<S("system"), S("you are")>>), L(<<S("human"), S("hi")>>) >>) }

\* Two insertion ordered dicts hold the same key/value pairs at every level.
RECURSIVE SameMapping(_, _)
SameMapping(p, q) ==
  /\ Len(p) = Len(q)
  /\ \A i \in 1..Len(p) : \E j \in 1..Len(q) :
        /\ p[i][1] = q[j][1]
        /\ LET v == p[i][2]
               w == q[j][2]
           IN /\ v.tag = w.tag
              /\ IF v.tag = "d" THEN SameMapping(v.items, w.items) ELSE v = w

\* model_params = {"type": model_type, **kwargs}
ModelParams(model_type, kwargs) == D(<< <<"type", S(model_type)>> >> \o kwargs)
\* The identifiers of all inputs, computed once.
ModelIds == [t \in ModelTypes |-> [kw \in KwargsInputs |-> generate_id(ModelParams(t, kw))]]
PromptIds == [m \in MessagesInputs |-> generate_id(m)]
ModelKey(model_type, kwargs) == IdKey("model", ModelIds[model_type][kwargs])
PromptKey(messages) == IdKey("prompt", PromptIds[messages])

ModelKeys == {ModelKey(t, kw) : t \in ModelTypes, kw \in KwargsInputs}
PromptKeys == {PromptKey(m) : m \in MessagesInputs}
ChainKeys == {ChainKey(cs[1], cs[2]) : cs \in ChainSteps}
Keys == ChainKeys \cup ModelKeys \cup PromptKeys \cup ParserKeys

(* ------------------------------- state --------------------------------- *)
VARIABLES
  chain_objects,   \* self.chain_objects: key -> cached object
  access_times,    \* self.access_times: key -> hour of the last access
  lru_hours,       \* self.lru_hours: retention in hours
  now,             \* datetime.now(), in hours
  created,         \* number of objects constructed by get_model / get_prompt
  call             \* the most recent call: operation, arguments, result, hour,
                   \* whether it ran a constructor (built) and the age of the
                   \* entry it looked up (-1: no entry)
VARIABLES
  pc,              \* per thread: where its get_model / get_prompt call stands
  local            \* per thread: the key it asks for and its local `model`

VARIABLES
  environ,         \* os.environ.get('CHAIN_CACHE_LRU_HOUR'): unset or a string
  instance         \* ComponentRegistry._instance: None or the one instance

VARIABLES
  retriever,       \* a BM25SJRetriever: k, documents and its index
  files,           \* the file at the path given to save() and load()
  out              \* the most recent retriever call and what it returned

VARIABLES
  vector_store,    \* Rag.vector_store: None or the documents the store holds
  write_lock,      \* Rag.write_lock: 0 or the thread that holds it
  reranker,        \* Rag.reranker, with whether config has a reranker section
  tpc,             \* per thread: where its Rag call stands
  tloc             \* per thread: the arguments and locals of its Rag call

envVars == <<environ, instance>>
bmVars == <<retriever, files, out>>
VARIABLES
  executor,        \* the call of batch_query in progress: its questions and
                   \* the futures of its ThreadPoolExecutor
  results          \* what batch_query returned

VARIABLES
  heap,            \* the runnables alive, by id(): kind, steps, the chain id
                   \* last given to this very object by set_chain_id
  chain_registry,  \* _chain_registry: id(chain) -> chain id
  chain_call,      \* the most recent chain id call and what it returned
  allocated        \* how many runnables were created so far

ragVars == <<vector_store, write_lock, reranker, tpc, tloc>>
batchVars == <<executor, results>>
idVars == <<heap, chain_registry, chain_call, allocated>>
restVars == <<environ, instance, retriever, files, out, ragVars, batchVars, idVars>>
vars == <<chain_objects, access_times, lru_hours, now, created, call, pc, local,
          restVars>>

NoKey == StrKey("")
Threads == 1..MaxThreads
NoObj == 0   \* None
RetNone == [kind |-> "none", val |-> 0, list |-> <<>>, exc |-> ""]
RetObj(o) == [kind |-> "obj", val |-> o, list |-> <<>>, exc |-> ""]
RetInt(n) == [kind |-> "int", val |-> n, list |-> <<>>, exc |-> ""]
RetList(l) == [kind |-> "list", val |-> 0, list |-> l, exc |-> ""]
RetRaise(e) == [kind |-> "raise", val |-> 0, list |-> <<>>, exc |-> e]
NoArg == <<>>
AgeOf(at, key, t) == IF key \in DOMAIN at THEN t - at[key] ELSE -1

Restrict(f, dom) == [k \in dom |-> f[k]]
Put(f, key, v) == [k \in DOMAIN f \cup {key} |-> IF k = key THEN v ELSE f[k]]
Reg(co, at, ret) == [co |-> co, at |-> at, ret |-> ret, built |-> 0]

(* ------------------- configuration read at creation -------------------- *)
\* The value of an environment variable: unset, or a string given as the
\* sequence of its characters.
NoEnv == [set |-> FALSE, chars |-> <<>>]
EnvStr(chars) == [set |-> TRUE, chars |-> chars]
EnvChars == {"1", "2", "-", " ", "x"}
RECURSIVE SeqsUpTo(_, _)
SeqsUpTo(alphabet, n) ==
  IF n = 0 THEN {<<>>}
  ELSE LET shorter == SeqsUpTo(alphabet, n - 1)
       IN shorter \cup {Append(w, c) : w \in shorter, c \in alphabet}
EnvInputs == {NoEnv} \cup {EnvStr(w) : w \in SeqsUpTo(EnvChars, MaxEnvLen)}

Digits == <<"0", "1", "2", "3", "4", "5", "6", "7", "8", "9">>
IsDigit(c) == \E i \in 1..Len(Digits) : Digits[i] = c
DigitVal(c) == (CHOOSE i \in 1..Len(Digits) : Digits[i] = c) - 1
Whitespace == {" ", "\t", "\n"}

\* str(n) of a natural number
RECURSIVE str(_)
str(n) == IF n < 10 THEN <<Digits[n + 1]>> ELSE Append(str(n \div 10), Digits[(n % 10) + 1])

\* s.strip()
RECURSIVE lstrip(_)
lstrip(chars) ==
  IF chars # <<>> /\ Head(chars) \in Whitespace THEN lstrip(Tail(chars)) ELSE chars
RECURSIVE rstrip(_)
rstrip(chars) ==
  IF chars # <<>> /\ chars[Len(chars)] \in Whitespace
  THEN rstrip(SubSeq(chars, 1, Len(chars) - 1)) ELSE chars
strip(chars) == rstrip(lstrip(chars))

\* The digits of a decimal literal read left to right; an underscore is
\* allowed between two digits only.
RECURSIVE ScanDigits(_, _, _)
ScanDigits(chars, acc, afterDigit) ==
  IF chars = <<>> THEN [ok |-> afterDigit, val |-> acc]
  ELSE IF IsDigit(Head(chars))
       THEN ScanDigits(Tail(chars), acc * 10 + DigitVal(Head(chars)), TRUE)
       ELSE IF Head(chars) = "_" /\ afterDigit
            THEN ScanDigits(Tail(chars), acc, FALSE)
            ELSE [ok |-> FALSE, val |-> 0]

\* int(s) of a string: ok is FALSE where Python raises ValueError
int_str(chars) ==
  LET s == strip(chars)
      signed == s # <<>> /\ Head(s) \in {"+", "-"}
      r == ScanDigits(IF signed THEN Tail(s) ELSE s, 0, FALSE)
  IN IF r.ok
     THEN [ok |-> TRUE, val |-> IF signed /\ Head(s) = "-" THEN 0 - r.val ELSE r.val]
     ELSE [ok |-> FALSE, val |-> 0]

DefaultLruHours == 24
NoInstance == 0   \* _instance = None

\* int(os.environ.get('CHAIN_CACHE_LRU_HOUR', 24)) without the except clause
lru_hours_no_fallback(env) ==
  IF ~env.set THEN [ok |-> TRUE, val |-> DefaultLruHours] ELSE int_str(env.chars)

\* try: int(os.environ.get('CHAIN_CACHE_LRU_HOUR', 24))
\* except (ValueError, TypeError): 24
lru_hours_from_env(env) ==
  IF ~env.set THEN [ok |-> TRUE, val |-> DefaultLruHours]
  ELSE LET r == int_str(env.chars)
       IN IF r.ok THEN r ELSE [ok |-> TRUE, val |-> DefaultLruHours]

\* __new__ that builds a fresh instance on every call
new_always_fresh(inst, co, at, hours, env) ==
  LET h == lru_hours_from_env(env)
  IN [inst |-> inst + 1, co |-> <<>>, at |-> <<>>, hours |-> h.val,
      ret |-> RetObj(inst + 1), built |-> 1]

\* ComponentRegistry.__new__: the instance is built on the first call only;
\* an exception that escapes the try propagates to the caller.
new(inst, co, at, hours, env) ==
  IF inst = NoInstance
  THEN LET h == lru_hours_from_env(env)
       IN IF h.ok
          THEN [inst |-> inst + 1, co |-> <<>>, at |-> <<>>, hours |-> h.val,
                ret |-> RetObj(inst + 1), built |-> 1]
          ELSE [inst |-> inst + 1, co |-> <<>>, at |-> <<>>, hours |-> hours,
                ret |-> RetRaise("ValueError"), built |-> 1]
  ELSE [inst |-> inst, co |-> co, at |-> at, hours |-> hours,
        ret |-> RetObj(inst), built |-> 0]

(* ---------------------------- operations ------------------------------- *)
\* A mutation of IsExpired: an entry whose age equals the retention expires.
IsExpiredAtTtl(t, access_time, hours) == t - access_time >= hours

\* now - access_time > expiration_delta
IsExpired(t, access_time, hours) == t - access_time > hours

\* A mutation of clean_expired_objects: the sweep stops after one expired key.
clean_first_expired_only(co, at, t, hours) ==
  LET expired_keys == {key \in DOMAIN at : IsExpired(t, at[key], hours)}
      removed == IF expired_keys = {} THEN {} ELSE {CHOOSE key \in expired_keys : TRUE}
  IN Reg(Restrict(co, DOMAIN co \ removed), Restrict(at, DOMAIN at \ removed), RetNone)

\* _clean_expired_objects
clean_expired_objects(co, at, t, hours) ==
  LET expired_keys == {key \in DOMAIN at : IsExpired(t, at[key], hours)}
      removed == {key \in expired_keys : key \in DOMAIN co}
  IN Reg(Restrict(co, DOMAIN co \ removed), Restrict(at, DOMAIN at \ removed), RetNone)

\* A mutation of get_object: the lookup precedes the sweep.
get_object_lookup_first(co, at, key, t, hours) ==
  LET c == clean_expired_objects(co, at, t, hours)
  IN IF key \in DOMAIN co
     THEN Reg(c.co, IF key \in DOMAIN c.co THEN Put(c.at, key, t) ELSE c.at, RetObj(co[key]))
     ELSE Reg(c.co, c.at, RetNone)

\* A mutation of get_object: a miss raises instead of returning None.
get_object_keyerror(co, at, key, t, hours) ==
  LET c == clean_expired_objects(co, at, t, hours)
  IN IF key \in DOMAIN c.co
     THEN Reg(c.co, Put(c.at, key, t), RetObj(c.co[key]))
     ELSE Reg(c.co, c.at, RetRaise("KeyError"))

get_object(co, at, key, t, hours) ==
  LET c == clean_expired_objects(co, at, t, hours)
  IN IF key \in DOMAIN c.co
     THEN Reg(c.co, Put(c.at, key, t), RetObj(c.co[key]))
     ELSE Reg(c.co, c.at, RetNone)

\* A mutation of set_object: the object is stored, its access time is not.
set_object_no_time(co, at, key, obj, t, hours) ==
  LET c == clean_expired_objects(co, at, t, hours)
  IN Reg(Put(c.co, key, obj), c.at, RetNone)

set_object(co, at, key, obj, t, hours) ==
  LET c == clean_expired_objects(co, at, t, hours)
  IN Reg(Put(c.co, key, obj), Put(c.at, key, t), RetNone)

get_chain_object(co, at, chain_id, index, t, hours) ==
  get_object(co, at, ChainKey(chain_id, index), t, hours)

set_chain_object(co, at, chain_id, index, obj, t, hours) ==
  set_object(co, at, ChainKey(chain_id, index), obj, t, hours)

\* key[0] == chain_id for a 2-tuple key
KeyOfChain(key, chain_id) == IsTuple2(key) /\ key.k0 = chain_id

RECURSIVE SortByIndex(_, _)
\* result.sort(key=lambda x: x[0]) over the (idx, object) pairs of keys
SortByIndex(keys, co) ==
  IF keys = {} THEN <<>>
  ELSE LET first == CHOOSE k \in keys : \A other \in keys : k.k1 <= other.k1
       IN <<[idx |-> first.k1, obj |-> co[first]]>> \o SortByIndex(keys \ {first}, co)

\* A mutation of get_chain_objects: the access times are left alone.
get_chain_objects_no_refresh(co, at, chain_id, t, hours) ==
  LET c == clean_expired_objects(co, at, t, hours)
      found == {key \in DOMAIN c.co : KeyOfChain(key, chain_id)}
  IN IF \E k1, k2 \in found : k1.ty # k2.ty
     THEN Reg(c.co, c.at, RetRaise("TypeError"))
     ELSE Reg(c.co, c.at, RetList(SortByIndex(found, c.co)))

get_chain_objects(co, at, chain_id, t, hours) ==
  LET c == clean_expired_objects(co, at, t, hours)
      found == {key \in DOMAIN c.co : KeyOfChain(key, chain_id)}
      at2 == [key \in DOMAIN c.at \cup found |-> IF key \in found THEN t ELSE c.at[key]]
  IN IF \E k1, k2 \in found : k1.ty # k2.ty
     THEN Reg(c.co, at2, RetRaise("TypeError"))   \* sort compares an int with a str
     ELSE Reg(c.co, at2, RetList(SortByIndex(found, c.co)))

remove_chain_objects(co, at, chain_id) ==
  LET keys_to_remove == {key \in DOMAIN co : KeyOfChain(key, chain_id)}
  IN Reg(Restrict(co, DOMAIN co \ keys_to_remove),
         Restrict(at, DOMAIN at \ keys_to_remove),
         RetInt(Cardinality(keys_to_remove)))

KnownModelTypes == {"openai", "anthropic", "ollama"}

\* A mutation of get_or_create: the entry is stored before the constructor
\* has returned, so a failing constructor leaves it behind.
get_or_create_store_first(co, at, key, canBuild, ctor_ok, newObj, t, hours) ==
  LET g == get_object(co, at, key, t, hours)
      s == set_object(g.co, g.at, key, newObj, t, hours)
  IN IF g.ret.kind = "obj" THEN g
     ELSE IF ~canBuild THEN Reg(g.co, g.at, RetRaise("ValueError"))
     ELSE IF ~ctor_ok THEN Reg(s.co, s.at, RetRaise("ConstructorError"))
     ELSE [Reg(s.co, s.at, RetObj(newObj)) EXCEPT !.built = 1]

\* get_or_create shared by get_model and get_prompt: look the key up,
\* construct on a miss (canBuild: the type is known; ctor_ok: the
\* constructor does not raise), store and return.
get_or_create(co, at, key, canBuild, ctor_ok, newObj, t, hours) ==
  LET g == get_object(co, at, key, t, hours)
  IN IF g.ret.kind = "obj" THEN g
     ELSE IF ~canBuild THEN Reg(g.co, g.at, RetRaise("ValueError"))
     ELSE IF ~ctor_ok THEN Reg(g.co, g.at, RetRaise("ConstructorError"))
     ELSE LET s == set_object(g.co, g.at, key, newObj, t, hours)
          IN [Reg(s.co, s.at, RetObj(newObj)) EXCEPT !.built = 1]

get_model(co, at, model_type, kwargs, ctor_ok, newObj, t, hours) ==
  get_or_create(co, at, ModelKey(model_type, kwargs),
                model_type \in KnownModelTypes, ctor_ok, newObj, t, hours)

get_prompt(co, at, messages, ctor_ok, newObj, t, hours) ==
  get_or_create(co, at, PromptKey(messages), TRUE, ctor_ok, newObj, t, hours)

(* --------------------------- chat step: chat.py ------------------------- *)
\* registry.get_chain_object(*args) and registry.set_chain_object(*args) with
\* the positional arguments of the call site: the methods take
\* (chain_id, index) and (chain_id, index, obj)
bound_get_chain_object(co, at, args, t, hours) ==
  IF Len(args) # 2 THEN Reg(co, at, RetRaise("TypeError"))
  ELSE get_chain_object(co, at, args[1], args[2], t, hours)

bound_set_chain_object(co, at, args, t, hours) ==
  IF Len(args) # 3 THEN Reg(co, at, RetRaise("TypeError"))
  ELSE set_chain_object(co, at, args[1], args[2], args[3], t, hours)

RetChat(model, template) ==
  [kind |-> "chat", val |-> model, list |-> <<[idx |-> 0, obj |-> template]>>, exc |-> ""]

\* the model part of _chat: in_chain is "chain" in session
chat_model(co, at, in_chain, chain_id, index, model_type, newObj, t, hours) ==
  LET g == IF in_chain
           THEN bound_get_chain_object(co, at, <<chain_id, index, "model">>, t, hours)
           ELSE Reg(co, at, RetNone)
  IN IF g.ret.kind = "raise" \/ g.ret.kind = "obj" THEN g
     ELSE IF model_type \notin KnownModelTypes THEN Reg(g.co, g.at, RetRaise("ValueError"))
     ELSE LET s == IF in_chain
                   THEN bound_set_chain_object(g.co, g.at, <<chain_id, index, newObj, "model">>,
                                               t, hours)
                   ELSE Reg(g.co, g.at, RetNone)
          IN [s EXCEPT !.built = 1,
                       !.ret = IF s.ret.kind = "raise" THEN s.ret ELSE RetObj(newObj)]

\* _get_template(data)
get_template(co, at, in_chain, chain_id, index, newObj, t, hours) ==
  LET g == IF in_chain
           THEN bound_get_chain_object(co, at, <<chain_id, index, "template">>, t, hours)
           ELSE Reg(co, at, RetNone)
  IN IF g.ret.kind = "raise" \/ g.ret.kind = "obj" THEN g
     ELSE LET s == IF in_chain
                   THEN bound_set_chain_object(g.co, g.at, <<chain_id, index, newObj, "template">>,
                                               t, hours)
                   ELSE Reg(g.co, g.at, RetNone)
          IN [s EXCEPT !.built = 1,
                       !.ret = IF s.ret.kind = "raise" THEN s.ret ELSE RetObj(newObj)]

\* _chat(data, model_type, ...) up to the invocation of the model
chat(co, at, in_chain, chain_id, index, model_type, newObj, t, hours) ==
  LET m == chat_model(co, at, in_chain, chain_id, index, model_type, newObj, t, hours)
  IN IF m.ret.kind = "raise" THEN m
     ELSE LET p == get_template(m.co, m.at, in_chain, chain_id, index,
                                newObj + m.built, t, hours)
          IN [p EXCEPT !.built = m.built + p.built,
                       !.ret = IF p.ret.kind = "raise" THEN p.ret
                               ELSE RetChat(m.ret.val, p.ret.val)]

(* ------------------------- BM25SJ retriever ---------------------------- *)
(* BM25SJRetriever (snappychain.bm25sj), modelled from its contract: BM25 *)
(* with k1 = 1.2 and b = 0.75 over an inverted index, scores in            *)
(* thousandths.  A text is given as the sequence of terms its tokenizer    *)
(* yields.                                                                 *)
Terms == {"a", "b"}
DocInputs == {<<"a">>, <<"b">>, <<"a", "b">>}
QueryInputs == {<<"a">>, <<"b">>, <<"a", "b">>}
DocSeqs == SeqsUpTo(DocInputs, MaxDocs)

k1_tenths == 12
b_hundredths == 75
\* IdfMilli[N][n] = floor(1000 * ln((N - n + 0.5) / (n + 0.5) + 1))
IdfMilli ==
  << <<287>>,
     <<693, 182>>,
     <<980, 470, 133>>,
     <<1203, 693, 356, 105>>,
     <<1386, 875, 538, 287, 87>>,
     <<1540, 1029, 693, 441, 241, 74>> >>

RECURSIVE SumSeq(_)
SumSeq(xs) == IF xs = <<>> THEN 0 ELSE Head(xs) + SumSeq(Tail(xs))
Count(text, term) == Cardinality({i \in 1..Len(text) : text[i] = term})
AvgDl(doc_len) == [sum |-> SumSeq(doc_len), n |-> Len(doc_len)]

\* Construct: the index of a document sequence, built in one pass
BuildIndex(docs) ==
  LET doc_len == [i \in 1..Len(docs) |-> Len(docs[i])]
  IN [tf |-> [t \in Terms |-> [i \in 1..Len(docs) |-> Count(docs[i], t)]],
      doc_len |-> doc_len,
      avgdl |-> AvgDl(doc_len)]
BM25SJRetriever(docs, k) == [k |-> k, documents |-> docs, index |-> BuildIndex(docs)]

\* one more document: the average length is taken over the new batch only
index_add_drifting(ix, doc) ==
  [tf |-> [t \in Terms |-> Append(ix.tf[t], Count(doc, t))],
   doc_len |-> Append(ix.doc_len, Len(doc)),
   avgdl |-> [sum |-> Len(doc), n |-> 1]]

\* one more document: term frequencies and the length table are extended,
\* the average document length is recomputed over the whole corpus
index_add(ix, doc) ==
  LET doc_len == Append(ix.doc_len, Len(doc))
  IN [tf |-> [t \in Terms |-> Append(ix.tf[t], Count(doc, t))],
      doc_len |-> doc_len,
      avgdl |-> AvgDl(doc_len)]

RECURSIVE index_add_all(_, _)
index_add_all(ix, docs) ==
  IF docs = <<>> THEN ix ELSE index_add_all(index_add(ix, Head(docs)), Tail(docs))

add_documents(eng, new_documents) ==
  [k |-> eng.k,
   documents |-> eng.documents \o new_documents,
   index |-> index_add_all(eng.index, new_documents)]

\* the BM25 score of document i for one query term, in thousandths
TermScore(eng, term, i) ==
  LET f == eng.index.tf[term][i]
      N == Len(eng.documents)
      n == Cardinality({j \in 1..N : eng.index.tf[term][j] > 0})
      dl == eng.index.doc_len[i]
      avg == eng.index.avgdl
  IN IF f = 0 THEN 0
     ELSE (IdfMilli[N][n] * f * (k1_tenths + 10) * 100 * avg.sum)
            \div (1000 * f * avg.sum
                   + k1_tenths * ((100 - b_hundredths) * avg.sum
                                  + b_hundredths * dl * avg.n))

RECURSIVE Score(_, _, _)
Score(eng, q, i) ==
  IF q = <<>> THEN 0 ELSE TermScore(eng, Head(q), i) + Score(eng, Tail(q), i)

\* insertion that puts a hit before the hits of equal score
InsertRankedBeforeEqual(ranked, hit) ==
  LET ahead == {i \in 1..Len(ranked) : ranked[i].score > hit.score}
  IN SubSeq(ranked, 1, Cardinality(ahead)) \o <<hit>>
       \o SubSeq(ranked, Cardinality(ahead) + 1, Len(ranked))

\* stable insertion into a sequence ranked by descending score
InsertRanked(ranked, hit) ==
  LET ahead == {i \in 1..Len(ranked) : ranked[i].score >= hit.score}
  IN SubSeq(ranked, 1, Cardinality(ahead)) \o <<hit>>
       \o SubSeq(ranked, Cardinality(ahead) + 1, Len(ranked))

RECURSIVE Rank(_, _, _, _)
Rank(eng, q, i, ranked) ==
  IF i > Len(eng.documents) THEN ranked
  ELSE LET hit == [pos |-> i, doc |-> eng.documents[i], score |-> Score(eng, q, i)]
           matches == \E j \in 1..Len(q) : eng.index.tf[q[j]][i] > 0
       IN Rank(eng, q, i + 1, IF matches THEN InsertRanked(ranked, hit) ELSE ranked)

\* every ranked hit, whatever k is
TakeAll(ranked, k) == ranked

Take(ranked, k) == SubSeq(ranked, 1, IF Len(ranked) < k THEN Len(ranked) ELSE k)

\* get_relevant_documents(q)
query(eng, q) == Take(Rank(eng, q, 1, <<>>), eng.k)

\* save(path) and load(path): the file holds a tag, k, the number of
\* documents and the documents; load rebuilds the index.
NoFile == [state |-> "missing", blob |-> <<>>]
Magic == "BM25SJ"
dump(eng) == <<Magic, eng.k, Len(eng.documents)>> \o eng.documents
save(eng) == [state |-> "saved", blob |-> dump(eng)]
NoEngine == [k |-> 0, documents |-> <<>>, index |-> BuildIndex(<<>>)]

\* load that takes whatever documents the file still holds
load_lenient(file) ==
  IF file.state = "missing" \/ Len(file.blob) < 3
  THEN [raised |-> "", eng |-> BM25SJRetriever(<<>>, 1)]
  ELSE [raised |-> "",
        eng |-> BM25SJRetriever(SubSeq(file.blob, 4, Len(file.blob)), file.blob[2])]

load(file) ==
  IF file.state = "missing" THEN [raised |-> "FileNotFoundError", eng |-> NoEngine]
  ELSE IF \/ Len(file.blob) < 3
          \/ file.blob[1] # Magic
          \/ Len(file.blob) # 3 + file.blob[3]
       THEN [raised |-> "PersistenceError", eng |-> NoEngine]
       ELSE [raised |-> "",
             eng |-> BM25SJRetriever(SubSeq(file.blob, 4, Len(file.blob)), file.blob[2])]

\* Rag: vector_store is None or a store; the store is given by the sequence
\* of documents it holds.
NoStore == [set |-> FALSE, docs |-> <<>>]
Store(docs) == [set |-> TRUE, docs |-> docs]
NoCall == [op |-> "", batch |-> <<>>, q |-> <<>>, all_docs |-> <<>>,
           seen_vs |-> -1, seen_bm |-> -1, reranked |-> FALSE, ret |-> "", exc |-> ""]

\* __post_init__ on the reranker: with a reranker section in config it
\* chooses an llm for reranking (rerank_llm) and keeps it in a local only;
\* self.reranker stays as __init__ set it, None.
post_init_reranker(has_section) == [config |-> has_section, obj |-> NoObj]
\* self.reranker(question, all_docs): an external reordering, here the
\* reversal of the list
RECURSIVE Reverse(_)
Reverse(xs) == IF xs = <<>> THEN <<>> ELSE Append(Reverse(Tail(xs)), Head(xs))
\* batch_query: no call in progress, nothing returned
NoExecutor == [phase |-> "idle", questions |-> <<>>, created |-> FALSE, future |-> <<>>,
               record |-> <<>>, finished |-> <<>>, started |-> 0]
NoResults == [returned |-> FALSE, list |-> <<>>, raised |-> ""]
(* ------------------- chain ids: snappychain/__init__.py ----------------- *)
(* An object is known to the registry by id(obj) alone. A live object has   *)
(* an address no other live object has; the address of a collected object   *)
(* is free for the next one that is created.                                *)
Addrs == 1..MaxObjs
ExplicitIds == {"A"}      \* chain_id arguments given by the caller
NoneId == ""              \* chain_id=None, and every falsy chain_id
GeneratedIds == {"u1"}    \* str(uuid.uuid4())[:8]
Unknown == "unknown"
\* a runnable: its class, the chain id set_chain_id last gave to this very
\* object, and for a RunnableSequence its first step and number of steps
Free == [kind |-> "free", assigned |-> Unknown, first |-> 0, len |-> 0]
Runnable(kind, assigned) == [kind |-> kind, assigned |-> assigned, first |-> 0, len |-> 1]
Alive(h) == {a \in Addrs : h[a].kind # "free"}
\* the first step of the sequence that self | other builds
FirstOf(h, a) == IF h[a].kind = "seq" THEN h[a].first ELSE a
\* objects a live RunnableSequence keeps alive
Referenced(h) == {a \in Addrs : \E s \in Alive(h) : h[s].kind = "seq" /\ h[s].first = a}

generate_chain_id(gen) == gen

\* _chain_registry[id(chain)] = chain_id
set_chain_id(reg, chain, chain_id, gen) ==
  LET cid == IF chain_id = NoneId THEN generate_chain_id(gen) ELSE chain_id
  IN [reg |-> [x \in DOMAIN reg \cup {chain} |-> IF x = chain THEN cid ELSE reg[x]],
      ret |-> cid]

\* _chain_registry.get(id(chain), "unknown")
get_chain_id(reg, chain) == IF chain \in DOMAIN reg THEN reg[chain] ELSE Unknown

\* RunnableLambda.__or__ after _override_pipe_operator(): chain is the
\* RunnableSequence original_pipe(self, other) has just built
pipe_override(reg, self, chain) ==
  LET chain_id == get_chain_id(reg, self)
  IN IF chain_id # Unknown
     THEN set_chain_id(reg, chain, chain_id, NoneId)
     ELSE [reg |-> reg, ret |-> Unknown]

NoChainCall == [op |-> "none", self |-> 0, chain |-> 0, ret |-> "", raised |-> ""]
InitIds ==
  /\ heap = [a \in Addrs |-> Free]
  /\ chain_registry = <<>>
  /\ chain_call = NoChainCall
  /\ allocated = 0

InitRagIdle ==
  /\ vector_store = NoStore
  /\ write_lock = 0
  /\ reranker = post_init_reranker(FALSE)
  /\ tpc = [th \in Threads |-> "idle"]
  /\ tloc = [th \in Threads |-> NoCall]
  /\ executor = NoExecutor
  /\ results = NoResults
  /\ InitIds

NoOut == [op |-> "none", arg |-> <<>>, k |-> 0, ret |-> <<>>, raised |-> "", eng |-> NoEngine]
InitBm ==
  /\ retriever = BM25SJRetriever(<<>>, 1)
  /\ files = NoFile
  /\ out = NoOut
  /\ InitRagIdle

(* ------------------------------ actions -------------------------------- *)
Init ==
  /\ chain_objects = <<>>
  /\ access_times = <<>>
  /\ lru_hours \in 0..MaxLru
  /\ now = 0
  /\ created = 0
  /\ call = [op |-> "init", key |-> NoKey, name |-> "", arg |-> NoArg, ret |-> RetNone,
             t |-> 0, built |-> 0, age |-> -1]
  /\ pc = [th \in Threads |-> "idle"]
  /\ local = [th \in Threads |-> [key |-> NoKey, model |-> NoObj]]
  /\ environ = EnvStr(str(lru_hours))
  /\ instance = 1
  /\ InitBm

\* One call of a registry method: r is its effect and result, name the
\* chain id or model type it was given, arg its kwargs.
Apply(r, op, key, name, arg) ==
  /\ instance # NoInstance
  /\ created + r.built <= MaxCreated
  /\ chain_objects' = r.co
  /\ access_times' = r.at
  /\ created' = created + r.built
  /\ call' = [op |-> op, key |-> key, name |-> name, arg |-> arg, ret |-> r.ret,
              t |-> now, built |-> r.built, age |-> AgeOf(access_times, key, now)]
  /\ UNCHANGED <<lru_hours, now, pc, local, restVars>>

Tick ==
  /\ now < MaxTime
  /\ now' = now + 1
  /\ UNCHANGED <<chain_objects, access_times, lru_hours, created, call, pc, local,
                 restVars>>

GetObject(key) ==
  Apply(get_object(chain_objects, access_times, key, now, lru_hours),
        "get_object", key, "", NoArg)

SetObject(key, obj) ==
  Apply(set_object(chain_objects, access_times, key, obj, now, lru_hours),
        "set_object", key, "", NoArg)

GetChainObject(chain_id, index) ==
  Apply(get_chain_object(chain_objects, access_times, chain_id, index, now, lru_hours),
        "get_chain_object", ChainKey(chain_id, index), chain_id, NoArg)

SetChainObject(chain_id, index, obj) ==
  Apply(set_chain_object(chain_objects, access_times, chain_id, index, obj, now, lru_hours),
        "set_chain_object", ChainKey(chain_id, index), chain_id, NoArg)

GetChainObjects(chain_id) ==
  Apply(get_chain_objects(chain_objects, access_times, chain_id, now, lru_hours),
        "get_chain_objects", NoKey, chain_id, NoArg)

RemoveChainObjects(chain_id) ==
  Apply(remove_chain_objects(chain_objects, access_times, chain_id),
        "remove_chain_objects", NoKey, chain_id, NoArg)

GetModel(model_type, kwargs, ctor_ok) ==
  Apply(get_model(chain_objects, access_times, model_type, kwargs, ctor_ok, created + 1,
                  now, lru_hours),
        "get_model", ModelKey(model_type, kwargs), model_type, kwargs)

GetPrompt(messages, ctor_ok) ==
  Apply(get_prompt(chain_objects, access_times, messages, ctor_ok, created + 1, now, lru_hours),
        "get_prompt", PromptKey(messages), "", NoArg)

\* The parameter keyed cache: get_model, get_prompt and plain lookups.
Next ==
  \/ Tick
  \/ \E key \in ModelKeys \cup PromptKeys : GetObject(key)
  \/ \E t \in ModelTypes, kw \in KwargsInputs, ok \in BOOLEAN : GetModel(t, kw, ok)
  \/ \E m \in MessagesInputs, ok \in BOOLEAN : GetPrompt(m, ok)

Spec == Init /\ [][Next]_vars

\* The whole registry interface, chain scoped entries included.
NextChain ==
  \/ Tick
  \/ \E key \in ParserKeys \cup {ModelKey("openai", Kwargs1)} : GetObject(key)
  \/ \E key \in ParserKeys, obj \in ParserObjs : SetObject(key, obj)
  \/ \E cs \in ChainSteps : GetChainObject(cs[1], cs[2])
  \/ \E in \in SetInputs : SetChainObject(in[1], in[2], in[3])
  \/ \E c \in ChainIds : GetChainObjects(c)
  \/ \E c \in ChainIds : RemoveChainObjects(c)
  \/ GetModel("openai", Kwargs1, TRUE)

SpecChain == Init /\ [][NextChain]_vars

\* a chat step (openai_chat and the like) invoked with data whose session
\* does or does not name its chain
Chat(in_chain, chain_id, index, model_type) ==
  Apply(chat(chain_objects, access_times, in_chain, chain_id, index, model_type,
             created + 1, now, lru_hours),
        "chat", ChainKey(chain_id, index), IF in_chain THEN chain_id ELSE "", NoArg)

NextChat ==
  \/ Tick
  \/ \E in_chain \in BOOLEAN, cs \in ChainSteps, model_type \in ModelTypes :
        Chat(in_chain, cs[1], cs[2], model_type)
  \/ \E cs \in ChainSteps : GetChainObject(cs[1], cs[2])
  \/ \E in \in SetInputs : SetChainObject(in[1], in[2], in[3])

SpecChat == Init /\ [][NextChat]_vars

(* Concurrent callers.  get_model and get_prompt take no lock: a thread can *)
(* be preempted between the lookup, the constructor call and set_object.   *)
SharedKeys == {ModelKey("openai", Kwargs1)} \cup PromptKeys

\* model = self.get_object(("model", model_id))
T_Lookup(th, key) ==
  /\ pc[th] = "idle"
  /\ LET g == get_object(chain_objects, access_times, key, now, lru_hours)
     IN /\ chain_objects' = g.co
        /\ access_times' = g.at
        /\ local' = [local EXCEPT ![th] =
                       [key |-> key,
                        model |-> IF g.ret.kind = "obj" THEN g.ret.val ELSE NoObj]]
        /\ pc' = [pc EXCEPT ![th] = IF g.ret.kind = "obj" THEN "done" ELSE "miss"]
  /\ UNCHANGED <<lru_hours, now, created, call, restVars>>

\* if model is None: model = ChatOpenAI(...)
T_Construct(th) ==
  /\ pc[th] = "miss"
  /\ created < MaxCreated
  /\ created' = created + 1
  /\ local' = [local EXCEPT ![th].model = created + 1]
  /\ pc' = [pc EXCEPT ![th] = "built"]
  /\ UNCHANGED <<chain_objects, access_times, lru_hours, now, call, restVars>>

\* self.set_object(("model", model_id), model); return model
T_Store(th) ==
  /\ pc[th] = "built"
  /\ LET s == set_object(chain_objects, access_times, local[th].key, local[th].model,
                         now, lru_hours)
     IN /\ chain_objects' = s.co
        /\ access_times' = s.at
  /\ pc' = [pc EXCEPT ![th] = "done"]
  /\ UNCHANGED <<lru_hours, now, created, call, local, restVars>>

\* the caller makes its next call
T_Again(th) ==
  /\ pc[th] = "done"
  /\ pc' = [pc EXCEPT ![th] = "idle"]
  /\ local' = [local EXCEPT ![th] = [key |-> NoKey, model |-> NoObj]]
  /\ UNCHANGED <<chain_objects, access_times, lru_hours, now, created, call, restVars>>

NextConc ==
  \/ Tick
  \/ \E th \in Threads, key \in SharedKeys : T_Lookup(th, key)
  \/ \E th \in Threads : T_Construct(th)
  \/ \E th \in Threads : T_Store(th)
  \/ \E th \in Threads : T_Again(th)

SpecConc == Init /\ [][NextConc]_vars

(* Creation of the registry.  The process starts with no instance; the    *)
(* environment may change at any time; every module that imports the      *)
(* registry calls ComponentRegistry().                                     *)
InitEnv ==
  /\ chain_objects = <<>>
  /\ access_times = <<>>
  /\ lru_hours = 0
  /\ now = 0
  /\ created = 0
  /\ call = [op |-> "init", key |-> NoKey, name |-> "", arg |-> NoArg, ret |-> RetNone,
             t |-> 0, built |-> 0, age |-> -1]
  /\ pc = [th \in Threads |-> "idle"]
  /\ local = [th \in Threads |-> [key |-> NoKey, model |-> NoObj]]
  /\ environ \in EnvInputs
  /\ instance = NoInstance
  /\ InitBm

\* os.environ['CHAIN_CACHE_LRU_HOUR'] = ... or del os.environ[...]
SetEnviron(env) ==
  /\ env # environ
  /\ environ' = env
  /\ call' = [op |-> "setenv", key |-> NoKey, name |-> "", arg |-> NoArg, ret |-> RetNone,
              t |-> now, built |-> 0, age |-> -1]
  /\ UNCHANGED <<chain_objects, access_times, lru_hours, now, created, pc, local,
                 instance, bmVars, ragVars, batchVars, idVars>>

\* registry = ComponentRegistry()
New ==
  /\ LET r == new(instance, chain_objects, access_times, lru_hours, environ)
     IN /\ instance' = r.inst
        /\ chain_objects' = r.co
        /\ access_times' = r.at
        /\ lru_hours' = r.hours
        /\ call' = [op |-> "new", key |-> NoKey, name |-> "", arg |-> NoArg,
                    ret |-> r.ret, t |-> now, built |-> r.built, age |-> -1]
  /\ UNCHANGED <<now, created, pc, local, environ, bmVars, ragVars, batchVars, idVars>>

NextEnv ==
  \/ \E env \in EnvInputs : SetEnviron(env)
  \/ New
  \/ \E key \in ParserKeys : GetObject(key)
  \/ \E key \in ParserKeys, obj \in ParserObjs : SetObject(key, obj)

SpecEnv == InitEnv /\ [][NextEnv]_vars

(* The retriever on its own: documents are added, queries are asked and   *)
(* k is changed in any order.                                              *)
regVars == <<chain_objects, access_times, lru_hours, now, created, call, pc, local>>
InitReg ==
  /\ chain_objects = <<>>
  /\ access_times = <<>>
  /\ lru_hours = DefaultLruHours
  /\ now = 0
  /\ created = 0
  /\ call = [op |-> "init", key |-> NoKey, name |-> "", arg |-> NoArg, ret |-> RetNone,
             t |-> 0, built |-> 0, age |-> -1]
  /\ pc = [th \in Threads |-> "idle"]
  /\ local = [th \in Threads |-> [key |-> NoKey, model |-> NoObj]]
  /\ environ = NoEnv
  /\ instance = 1

\* retriever = BM25SJRetriever(documents=docs, k=k)
InitBm25 ==
  /\ InitReg
  /\ \E docs \in DocSeqs, k \in 1..MaxK : retriever = BM25SJRetriever(docs, k)
  /\ files = NoFile
  /\ out = NoOut
  /\ InitRagIdle

\* retriever.add_documents(new_documents)
AddDocuments(new_documents) ==
  /\ Len(retriever.documents) + Len(new_documents) <= MaxDocs
  /\ retriever' = add_documents(retriever, new_documents)
  /\ out' = [NoOut EXCEPT !.op = "add_documents", !.arg = new_documents]
  /\ UNCHANGED <<regVars, envVars, batchVars, idVars, ragVars, files>>

\* results = retriever.get_relevant_documents(q)
Query(q) ==
  /\ out' = [NoOut EXCEPT !.op = "query", !.arg = q, !.k = retriever.k,
                          !.ret = query(retriever, q)]
  /\ UNCHANGED <<regVars, envVars, batchVars, idVars, ragVars, retriever, files>>

\* retriever.k = k
SetK(k) ==
  /\ k # retriever.k
  /\ retriever' = [retriever EXCEPT !.k = k]
  /\ UNCHANGED <<regVars, envVars, batchVars, idVars, ragVars, files, out>>

NextBm25 ==
  \/ \E new_documents \in DocSeqs : AddDocuments(new_documents)
  \/ \E q \in QueryInputs : Query(q)
  \/ \E k \in 1..MaxK : SetK(k)

SpecBm25 == InitBm25 /\ [][NextBm25]_vars

(* Persistence: the retriever is saved, the file may be removed or cut     *)
(* short behind the program's back, and it is loaded again.                *)
\* retriever.save(path)
Save ==
  /\ files' = save(retriever)
  /\ out' = [NoOut EXCEPT !.op = "save"]
  /\ UNCHANGED <<regVars, envVars, batchVars, idVars, ragVars, retriever>>

\* the file loses its tail, or is removed (n = -1)
Damage(n) ==
  /\ files.state # "missing"
  /\ n < Len(files.blob)
  /\ files' = IF n < 0 THEN NoFile
              ELSE [state |-> "damaged", blob |-> SubSeq(files.blob, 1, n)]
  /\ out' = [NoOut EXCEPT !.op = "damage"]
  /\ UNCHANGED <<regVars, envVars, batchVars, idVars, ragVars, retriever>>

\* loaded_retriever = BM25SJRetriever.load(path)
Load ==
  /\ LET r == load(files)
     IN out' = [NoOut EXCEPT !.op = "load", !.raised = r.raised, !.eng = r.eng]
  /\ UNCHANGED <<regVars, envVars, batchVars, idVars, ragVars, retriever, files>>

NextPersist ==
  \/ \E new_documents \in DocSeqs : AddDocuments(new_documents)
  \/ Save
  \/ \E n \in -1..(MaxDocs + 2) : Damage(n)
  \/ Load

SpecPersist == InitBm25 /\ [][NextPersist]_vars

(* A Rag with a BM25SJ retriever, with or without a vector store, used by  *)
(* several threads.  add_documents holds write_lock from before the first  *)
(* store is updated until after the last; query takes no lock.  The        *)
(* retrievers list is [vector_store.as_retriever(), BM25SJRetriever].       *)
RagBatches == {<<>>, << <<"a">> >>, << <<"b">> >>, << <<"a">>, <<"a", "b">> >>}
RagQuestions == {<<"a">>}
top_k == 4

\* rag = Rag(config)
InitRag ==
  /\ InitReg
  /\ retriever = BM25SJRetriever(<<>>, MaxK)
  /\ files = NoFile
  /\ out = NoOut
  /\ vector_store \in {NoStore, Store(<<>>)}
  /\ write_lock = 0
  /\ \E has_section \in BOOLEAN : reranker = post_init_reranker(has_section)
  /\ tpc = [th \in Threads |-> "idle"]
  /\ tloc = [th \in Threads |-> NoCall]
  /\ executor = NoExecutor
  /\ results = NoResults
  /\ InitIds

\* documents of the calls that are on their way to the retriever
Pending(th) ==
  IF tpc[th] \in {"lock", "vs", "retrievers"} THEN Len(tloc[th].batch) ELSE 0
RECURSIVE PendingUpTo(_)
PendingUpTo(n) == IF n = 0 THEN 0 ELSE Pending(n) + PendingUpTo(n - 1)
\* and of those on their way to the vector store
PendingStore(th) ==
  IF tpc[th] \in {"lock", "vs"} THEN Len(tloc[th].batch) ELSE 0
RECURSIVE PendingStoreUpTo(_)
PendingStoreUpTo(n) == IF n = 0 THEN 0 ELSE PendingStore(n) + PendingStoreUpTo(n - 1)

\* add_documents entered without the test for an empty list
add_documents_entry_unchecked(documents) == "lock"

\* if not documents: return self
add_documents_entry(documents) == IF documents = <<>> THEN "done" ELSE "lock"

\* rag.add_documents(documents), up to the with statement
R_Call(th, documents) ==
  /\ tpc[th] = "idle"
  /\ Len(retriever.documents) + PendingUpTo(MaxThreads) + Len(documents) <= MaxDocs
  /\ Len(vector_store.docs) + PendingStoreUpTo(MaxThreads) + Len(documents) <= MaxDocs
  /\ tpc' = [tpc EXCEPT ![th] = add_documents_entry(documents)]
  /\ tloc' = [tloc EXCEPT ![th] =
       [NoCall EXCEPT !.op = "add_documents", !.batch = documents,
                      !.ret = IF add_documents_entry(documents) = "done"
                              THEN "self" ELSE ""]]
  /\ UNCHANGED <<regVars, envVars, batchVars, idVars, reranker, bmVars, vector_store, write_lock>>

\* a lock that lets every caller in
lock_always_free(lock) == TRUE

\* threading.Lock: acquire waits until no thread holds it
lock_free(lock) == lock = 0

\* with self.write_lock:
R_Acquire(th) ==
  /\ tpc[th] = "lock"
  /\ lock_free(write_lock)
  /\ write_lock' = th
  /\ tpc' = [tpc EXCEPT ![th] = "vs"]
  /\ UNCHANGED <<regVars, envVars, batchVars, idVars, reranker, bmVars, vector_store, tloc>>

\* if self.vector_store: self.vector_store.add_documents(documents)
R_AddVectorStore(th) ==
  /\ tpc[th] = "vs"
  /\ vector_store' = IF vector_store.set
                      THEN Store(vector_store.docs \o tloc[th].batch)
                      ELSE vector_store
  /\ tpc' = [tpc EXCEPT ![th] = "retrievers"]
  /\ UNCHANGED <<regVars, envVars, batchVars, idVars, reranker, bmVars, write_lock, tloc>>

\* for retriever in self.retrievers: the test calls
\* self.vector_store.as_retriever(), which raises AttributeError when there
\* is no vector store; the store's own retriever is skipped, the BM25SJ
\* retriever receives the batch.
R_AddRetrievers(th) ==
  /\ tpc[th] = "retrievers"
  /\ IF vector_store.set
     THEN /\ retriever' = add_documents(retriever, tloc[th].batch)
          /\ tloc' = [tloc EXCEPT ![th].ret = "self"]
     ELSE /\ retriever' = retriever
          /\ tloc' = [tloc EXCEPT ![th].exc = "AttributeError"]
  /\ tpc' = [tpc EXCEPT ![th] = "unlock"]
  /\ UNCHANGED <<regVars, envVars, batchVars, idVars, reranker, files, out, vector_store, write_lock>>

\* a with statement that keeps the lock when its body raised
lock_exit_on_success(lock, exc) == IF exc = "" THEN 0 ELSE lock

\* the end of `with self.write_lock:`: the lock is released however the
\* body ended; exc is the exception on its way out, "" for none
lock_exit(lock, exc) == 0

\* leaving the with statement, by return or by raise
R_Release(th) ==
  /\ tpc[th] = "unlock"
  /\ write_lock' = lock_exit(write_lock, tloc[th].exc)
  /\ tpc' = [tpc EXCEPT ![th] = "done"]
  /\ UNCHANGED <<regVars, envVars, batchVars, idVars, reranker, bmVars, vector_store, tloc>>

\* rag.query(question), up to the loop over the retrievers
Q_Call(th, question) ==
  /\ tpc[th] = "idle"
  /\ tpc' = [tpc EXCEPT ![th] = IF vector_store.set THEN "q_vs" ELSE "q_bm"]
  /\ tloc' = [tloc EXCEPT ![th] = [NoCall EXCEPT !.op = "query", !.q = question]]
  /\ UNCHANGED <<regVars, envVars, batchVars, idVars, reranker, bmVars, vector_store, write_lock>>

\* docs = retriever.get_relevant_documents(question) on the store's retriever
Q_VectorStore(th) ==
  /\ tpc[th] = "q_vs"
  /\ tloc' = [tloc EXCEPT ![th].all_docs = Take(vector_store.docs, top_k),
                          ![th].seen_vs = Len(vector_store.docs)]
  /\ tpc' = [tpc EXCEPT ![th] = "q_bm"]
  /\ UNCHANGED <<regVars, envVars, batchVars, idVars, reranker, bmVars, vector_store, write_lock>>

\* docs = retriever.get_relevant_documents(question) on the BM25SJ
\* retriever; if self.reranker and all_docs: rerank; then
\* all_docs[:top_k*2] and the answer of the llm
Q_Bm25(th) ==
  /\ tpc[th] = "q_bm"
  /\ LET docs == [i \in 1..Len(query(retriever, tloc[th].q)) |->
                   query(retriever, tloc[th].q)[i].doc]
         all_docs == tloc[th].all_docs \o docs
         rerank == reranker.obj # NoObj /\ all_docs # <<>>
     IN tloc' = [tloc EXCEPT ![th].all_docs =
                               Take(IF rerank THEN Reverse(all_docs) ELSE all_docs,
                                    top_k * 2),
                             ![th].seen_bm = Len(retriever.documents),
                             ![th].reranked = rerank,
                             ![th].ret = "answer"]
  /\ tpc' = [tpc EXCEPT ![th] = "done"]
  /\ UNCHANGED <<regVars, envVars, batchVars, idVars, reranker, bmVars, vector_store, write_lock>>

\* the caller has its result and makes its next call
R_Return(th) ==
  /\ tpc[th] = "done"
  /\ tpc' = [tpc EXCEPT ![th] = "idle"]
  /\ tloc' = [tloc EXCEPT ![th] = NoCall]
  /\ UNCHANGED <<regVars, envVars, batchVars, idVars, reranker, bmVars, vector_store, write_lock>>

NextRag ==
  \/ \E th \in Threads, documents \in RagBatches : R_Call(th, documents)
  \/ \E th \in Threads : R_Acquire(th)
  \/ \E th \in Threads : R_AddVectorStore(th)
  \/ \E th \in Threads : R_AddRetrievers(th)
  \/ \E th \in Threads : R_Release(th)
  \/ \E th \in Threads, question \in RagQuestions : Q_Call(th, question)
  \/ \E th \in Threads : Q_VectorStore(th)
  \/ \E th \in Threads : Q_Bm25(th)
  \/ \E th \in Threads : R_Return(th)
  \/ AddDocuments(<<>>)

SpecRag == InitRag /\ [][NextRag]_vars

(* The same Rag with a vector store and a retriever that can fail: either  *)
(* add_documents call of the update section may raise, the except clause   *)
(* re-raises, and the exception leaves through the with statement.         *)
\* self.vector_store.add_documents(documents) raises
R_AddVectorStoreFails(th) ==
  /\ tpc[th] = "vs"
  /\ vector_store.set
  /\ tloc' = [tloc EXCEPT ![th].exc = "VectorStoreError"]
  /\ tpc' = [tpc EXCEPT ![th] = "unlock"]
  /\ UNCHANGED <<regVars, envVars, batchVars, idVars, reranker, bmVars, vector_store, write_lock>>

\* retriever.add_documents(documents) raises, after the vector store took
\* the batch
R_AddRetrieversFails(th) ==
  /\ tpc[th] = "retrievers"
  /\ vector_store.set
  /\ tloc' = [tloc EXCEPT ![th].exc = "RetrieverError"]
  /\ tpc' = [tpc EXCEPT ![th] = "unlock"]
  /\ UNCHANGED <<regVars, envVars, batchVars, idVars, reranker, bmVars, vector_store, write_lock>>

NextRagFail ==
  \/ NextRag
  \/ \E th \in Threads : R_AddVectorStoreFails(th)
  \/ \E th \in Threads : R_AddRetrieversFails(th)

SpecRagFail == InitRag /\ [][NextRagFail]_vars

(* batch_query: the questions are handed to a ThreadPoolExecutor whose     *)
(* workers take them in order and finish in any order; executor.map yields *)
(* the records in the order of the questions.  A query succeeds or raises, *)
(* as its retrievers and its llm decide.                                   *)
QuestionInputs == SeqsUpTo({"q1", "q2"}, MaxQuestions)
max_workers == 3
NoRecord == [query |-> "", result |-> <<>>, success |-> FALSE, exc |-> ""]

\* process_query without its except clause: the error leaves the worker
process_query_uncaught(q, ok) ==
  IF ok THEN [query |-> q, result |-> <<"answer", q>>, success |-> TRUE, exc |-> ""]
  ELSE [query |-> q, result |-> <<>>, success |-> FALSE, exc |-> "ValueError"]

\* process_query(q): the record of one question; result is the answer of
\* self.query(q) or, when the query raised, str(e).  exc is the exception
\* that leaves the worker, none here.
process_query(q, ok) ==
  [query |-> q, result |-> IF ok THEN <<"answer", q>> ELSE <<"error">>,
   success |-> ok, exc |-> ""]

InitBatch ==
  /\ InitReg
  /\ InitBm

\* rag.batch_query(questions), up to the submission of the questions
BatchQuery(questions) ==
  /\ executor.phase = "idle"
  /\ IF questions = <<>>
     THEN /\ executor' = [NoExecutor EXCEPT !.phase = "returned"]
          /\ results' = [returned |-> TRUE, list |-> <<>>, raised |-> ""]
     ELSE /\ executor' = [phase |-> "running", questions |-> questions, created |-> TRUE,
                          future |-> [i \in 1..Len(questions) |-> "pending"],
                          record |-> [i \in 1..Len(questions) |-> NoRecord],
                          finished |-> <<>>, started |-> 0]
          /\ results' = NoResults
  /\ UNCHANGED <<regVars, envVars, idVars, bmVars, ragVars>>

\* a worker takes the next question of the queue
WorkerStart(i) ==
  /\ executor.phase = "running"
  /\ i \in 1..Len(executor.questions)
  /\ executor.future[i] = "pending"
  /\ \A j \in 1..(i - 1) : executor.future[j] # "pending"
  /\ Cardinality({j \in 1..Len(executor.questions) : executor.future[j] = "running"})
       < max_workers
  /\ executor' = [executor EXCEPT !.future[i] = "running", !.started = @ + 1]
  /\ UNCHANGED <<regVars, envVars, idVars, bmVars, ragVars, results>>

\* a worker returns from process_query
WorkerFinish(i, ok) ==
  /\ executor.phase = "running"
  /\ i \in 1..Len(executor.questions)
  /\ executor.future[i] = "running"
  /\ executor' = [executor EXCEPT !.future[i] = "done",
                                  !.record[i] = process_query(executor.questions[i], ok),
                                  !.finished = Append(@, i)]
  /\ UNCHANGED <<regVars, envVars, idVars, bmVars, ragVars, results>>

\* the records in the order in which the workers finished
map_as_completed(record, finished) == [n \in 1..Len(finished) |-> record[finished[n]]]

\* list(executor.map(process_query, questions))
map_results(record, finished) == [i \in 1..Len(record) |-> record[i]]

\* the with statement ends when every worker is done; return results.
\* executor.map raises the exception of the first future that holds one.
BatchReturn ==
  /\ executor.phase = "running"
  /\ \A i \in 1..Len(executor.questions) : executor.future[i] = "done"
  /\ LET failed == {i \in 1..Len(executor.questions) : executor.record[i].exc # ""}
     IN results' =
          IF failed = {}
          THEN [returned |-> TRUE,
                list |-> map_results(executor.record, executor.finished),
                raised |-> ""]
          ELSE [returned |-> FALSE, list |-> <<>>,
                raised |-> executor.record[CHOOSE i \in failed :
                                             \A j \in failed : i <= j].exc]
  /\ executor' = [executor EXCEPT !.phase = "returned"]
  /\ UNCHANGED <<regVars, envVars, idVars, bmVars, ragVars>>

\* the caller makes its next call
BatchAgain ==
  /\ executor.phase = "returned"
  /\ executor' = NoExecutor
  /\ results' = NoResults
  /\ UNCHANGED <<regVars, envVars, idVars, bmVars, ragVars>>

NextBatch ==
  \/ \E questions \in QuestionInputs : BatchQuery(questions)
  \/ \E i \in 1..MaxQuestions : WorkerStart(i)
  \/ \E i \in 1..MaxQuestions, ok \in BOOLEAN : WorkerFinish(i, ok)
  \/ BatchReturn
  \/ BatchAgain

SpecBatch == InitBatch /\ [][NextBatch]_vars

(* ---------------------- chain id specification -------------------------- *)
othersIds == <<regVars, envVars, bmVars, ragVars, batchVars>>

InitChainIds ==
  /\ InitReg
  /\ InitBm

\* runnable = RunnableLambda(func): a runnable no chain id was given to
NewRunnableLambda(a) ==
  /\ heap[a] = Free /\ allocated < MaxAllocs
  /\ allocated' = allocated + 1
  /\ heap' = [heap EXCEPT ![a] = Runnable("lambda", Unknown)]
  /\ chain_call' = [NoChainCall EXCEPT !.op = "RunnableLambda", !.chain = a]
  /\ UNCHANGED <<chain_registry, othersIds>>

\* create_runnable(func, chain_id), and Chain(func, chain_id)
CreateRunnable(a, kind, chain_id, gen) ==
  /\ heap[a] = Free /\ allocated < MaxAllocs
  /\ allocated' = allocated + 1
  /\ LET r == set_chain_id(chain_registry, a, chain_id, gen)
     IN /\ chain_registry' = r.reg
        /\ heap' = [heap EXCEPT ![a] = Runnable(kind, r.ret)]
        /\ chain_call' = [NoChainCall EXCEPT !.op = "create", !.chain = a, !.ret = r.ret]
  /\ UNCHANGED othersIds

\* set_chain_id(chain, chain_id)
SetChainId(a, chain_id, gen) ==
  /\ a \in Alive(heap)
  /\ LET r == set_chain_id(chain_registry, a, chain_id, gen)
     IN /\ chain_registry' = r.reg
        /\ heap' = [heap EXCEPT ![a].assigned = r.ret]
        /\ chain_call' = [NoChainCall EXCEPT !.op = "set_chain_id", !.chain = a, !.ret = r.ret]
  /\ UNCHANGED <<allocated, othersIds>>

\* get_chain_id(chain)
GetChainId(a) ==
  /\ a \in Alive(heap)
  /\ chain_call' = [NoChainCall EXCEPT !.op = "get_chain_id", !.chain = a,
                                       !.ret = get_chain_id(chain_registry, a)]
  /\ UNCHANGED <<heap, chain_registry, allocated, othersIds>>

\* chain = self | other, for any other. The new RunnableSequence is at
\* address c. A RunnableLambda goes through pipe_override, a Chain through
\* Chain.__or__ (which calls it and then sets the attribute chain_id on the
\* sequence, which the sequence's class accepts or rejects: attr_ok), and a
\* RunnableSequence through its own __or__, which is not overridden.
Pipe(self, c, attr_ok) ==
  /\ self \in Alive(heap)
  /\ heap[c] = Free /\ allocated < MaxAllocs
  /\ allocated' = allocated + 1
  /\ LET r == IF heap[self].kind \in {"lambda", "chain"}
              THEN pipe_override(chain_registry, self, c)
              ELSE [reg |-> chain_registry, ret |-> Unknown]
         raised == IF heap[self].kind = "chain" /\ ~attr_ok THEN "ValueError" ELSE ""
     IN /\ chain_registry' = r.reg
        /\ heap' = IF raised = ""
                   THEN [heap EXCEPT ![c] = [kind |-> "seq", assigned |-> r.ret,
                                             first |-> FirstOf(heap, self),
                                             len |-> heap[self].len + 1]]
                   ELSE heap
        /\ chain_call' = [op |-> "pipe", self |-> self, chain |-> c,
                          ret |-> r.ret, raised |-> raised]
  /\ UNCHANGED othersIds

\* del obj: the last reference goes and the object is collected; the entry
\* of _chain_registry stays, nothing in the module removes one
Discard(a) ==
  /\ a \in Alive(heap)
  /\ a \notin Referenced(heap)
  /\ heap' = [heap EXCEPT ![a] = Free]
  /\ chain_call' = [NoChainCall EXCEPT !.op = "del", !.chain = a]
  /\ UNCHANGED <<chain_registry, allocated, othersIds>>

NextChainIds ==
  \/ \E a \in Addrs : NewRunnableLambda(a)
  \/ \E a \in Addrs, kind \in {"lambda", "chain"}, chain_id \in ExplicitIds \cup {NoneId},
        gen \in GeneratedIds : CreateRunnable(a, kind, chain_id, gen)
  \/ \E a \in Addrs, chain_id \in ExplicitIds \cup {NoneId}, gen \in GeneratedIds :
        SetChainId(a, chain_id, gen)
  \/ \E a \in Addrs : GetChainId(a)
  \/ \E self \in Addrs, c \in Addrs, attr_ok \in BOOLEAN : Pipe(self, c, attr_ok)
  \/ \E a \in Addrs : Discard(a)

SpecChainIds == InitChainIds /\ [][NextChainIds]_vars

TypeOK ==
  /\ DOMAIN chain_objects \subseteq Keys
  /\ DOMAIN access_times = DOMAIN chain_objects
  /\ now \in 0..MaxTime
  /\ created \in 0..MaxCreated

(* ------------------------------ claims --------------------------------- *)
\* A step that is one registry call; call' then describes that call.
OpStep == now' = now /\ vars' # vars
\* The entry of key is live by the clock: present and not older than the TTL.
Live(key) == key \in DOMAIN chain_objects /\ now - access_times[key] <= lru_hours
GetOrCreateOps == {"get_model", "get_prompt"}
LookupOps == {"get_object", "get_chain_object"}
NoEntryAdded == DOMAIN chain_objects' \subseteq DOMAIN chain_objects

\* C1: two get_model / get_prompt calls for the same parameters whose gap is
\* at most the TTL construct once and the second returns the instance of the
\* first; a call made more than the TTL after the last access constructs a
\* new object.
C1_GetOrCreateOncePerTtl ==
  [][(OpStep /\ call'.op \in GetOrCreateOps) =>
       /\ (/\ call.op = call'.op /\ call.key = call'.key /\ call.ret.kind = "obj"
           /\ now - call.t <= lru_hours)
          => (call'.built = 0 /\ call'.ret = call.ret)
       /\ (call'.key \in DOMAIN access_times /\ now - access_times[call'.key] > lru_hours)
          => \/ call'.ret.kind = "raise"
             \/ /\ call'.built = 1
                /\ created' = created + 1
                /\ call'.ret.kind = "obj"
                /\ call'.ret.val # chain_objects[call'.key]
                /\ chain_objects'[call'.key] = call'.ret.val]_vars

\* A get_model call that found its entry exactly TTL hours old and reused it.
C1_Witness ==
  /\ call.op = "get_model" /\ call.built = 0 /\ call.ret.kind = "obj"
  /\ call.age = lru_hours /\ call.age > 0 /\ created = 1

\* C2 as claimed: the create path is serialized, so while an entry is live
\* no second object is created for its key: the object of a live entry is
\* never replaced, and a caller that returns holds the live entry's object.
C2_Claim ==
  [][/\ \A key \in DOMAIN chain_objects :
          (Live(key) /\ key \in DOMAIN chain_objects')
            => chain_objects'[key] = chain_objects[key]
     /\ \A th \in Threads :
          (pc[th] # "done" /\ pc'[th] = "done")
            => (Live(local'[th].key) => local'[th].model = chain_objects[local'[th].key])]_vars

\* C3: get_object returns the stored object exactly when the entry's age is
\* within the TTL (age = TTL is live); an older entry yields None and is gone.
C3_NoExpiredReturned ==
  [][(OpStep /\ call'.op \in LookupOps) =>
       /\ Live(call'.key) => call'.ret = RetObj(chain_objects[call'.key])
       /\ ~Live(call'.key) =>
            /\ call'.ret = RetNone
            /\ call'.key \notin DOMAIN chain_objects'
            /\ call'.key \notin DOMAIN access_times']_vars

\* A lookup of an entry older than the TTL: None came back, the entry is gone.
C3_Witness ==
  /\ call.op = "get_object" /\ call.age > lru_hours
  /\ call.ret = RetNone /\ call.key \notin DOMAIN chain_objects

\* C4: every successful lookup sets the entry's last access to now, so an
\* entry looked up at gaps of at most the TTL stays; a miss refreshes nothing.
C4_LookupRefreshes ==
  [][OpStep =>
       /\ (call'.op \in LookupOps /\ call'.ret.kind = "obj")
          => (call'.key \in DOMAIN access_times' /\ access_times'[call'.key] = now)
       /\ (call'.op = "get_chain_objects" /\ call'.ret.kind = "list")
          => \A i \in 1..Len(call'.ret.list) :
               \E key \in DOMAIN access_times' :
                 /\ IsTuple2(key) /\ key.k0 = call'.name /\ key.k1 = call'.ret.list[i].idx
                 /\ access_times'[key] = now
       /\ (/\ call'.op \in LookupOps /\ call.op \in LookupOps /\ call.key = call'.key
           /\ call.ret.kind = "obj" /\ now - call.t <= lru_hours)
          => call'.ret = call.ret
       /\ (call'.op \in LookupOps /\ call'.ret = RetNone)
          => \A key \in DOMAIN access_times' :
               key \in DOMAIN access_times /\ access_times'[key] = access_times[key]]_vars

\* A chain lookup that hit an entry exactly TTL hours after its last access,
\* later than the TTL after the clock started, and refreshed it.
C4_Witness ==
  /\ call.op = "get_chain_object" /\ call.ret.kind = "obj"
  /\ call.age = lru_hours /\ call.age > 0
  /\ call.t > lru_hours /\ access_times[call.key] = now

\* C5: right after get_object, set_object, get_chain_object, set_chain_object
\* or get_chain_objects no entry is older than the TTL, and no entry that was
\* within the TTL has been removed.
SweepingOps ==
  {"get_object", "set_object", "get_chain_object", "set_chain_object", "get_chain_objects"}
C6_KeyOrderIndependent ==
  [][(OpStep /\ call'.op = "get_model") =>
       /\ \A kw \in KwargsInputs :
            SameMapping(call'.arg, kw) =>
              /\ call'.key = ModelKey(call'.name, kw)
              /\ Live(ModelKey(call'.name, kw)) =>
                   /\ call'.built = 0
                   /\ call'.ret = RetObj(chain_objects[ModelKey(call'.name, kw)])
       /\ (/\ call.op = "get_model" /\ call.name = call'.name
           /\ SameMapping(call.arg, call'.arg)
           /\ call.ret.kind = "obj" /\ now - call.t <= lru_hours)
          => (call'.built = 0 /\ call'.ret = call.ret /\ created' = created)]_vars

\* A get_model call whose kwargs are Kwargs1 reordered at both levels reused
\* the only object constructed so far.
C6_Witness ==
  /\ call.op = "get_model" /\ call.built = 0 /\ call.ret = RetObj(1) /\ created = 1
  /\ call.arg = << <<"opts", Opts21>>, <<"model_name", S("m1")>> >>
  /\ call.key = ModelKey("openai", Kwargs1)

\* C7 as claimed: a lookup of an absent or expired key returns None,
\* get_chain_objects of a chain without live entries returns the empty list,
\* remove_chain_objects of such a chain returns 0, and none adds an entry.
NoLiveEntry(chain_id) ==
  \A key \in DOMAIN chain_objects : KeyOfChain(key, chain_id) => ~Live(key)
NoEntry(chain_id) ==
  \A key \in DOMAIN chain_objects : ~KeyOfChain(key, chain_id)
C7_Original ==
  [][OpStep =>
       /\ (call'.op \in LookupOps /\ ~Live(call'.key))
          => (call'.ret = RetNone /\ NoEntryAdded)
       /\ (call'.op = "get_chain_objects" /\ NoLiveEntry(call'.name))
          => (call'.ret = RetList(<<>>) /\ NoEntryAdded)
       /\ (call'.op = "remove_chain_objects" /\ NoLiveEntry(call'.name))
          => (call'.ret = RetInt(0) /\ NoEntryAdded)]_vars

\* C7 (amended): a lookup of an absent or expired key returns None,
\* get_chain_objects of a chain without live entries returns the empty list,
\* remove_chain_objects returns 0 for a chain of which the registry holds no
\* entry at all (it does not sweep, so it counts expired entries that are
\* still stored); none of them raises or adds an entry.
C7_MissNeverRaises ==
  [][OpStep =>
       /\ (call'.op \in LookupOps /\ ~Live(call'.key))
          => (call'.ret = RetNone /\ NoEntryAdded)
       /\ (call'.op = "get_chain_objects" /\ NoLiveEntry(call'.name))
          => (call'.ret = RetList(<<>>) /\ NoEntryAdded)
       /\ (call'.op = "remove_chain_objects" /\ NoEntry(call'.name))
          => (call'.ret = RetInt(0) /\ NoEntryAdded)
       /\ (call'.op = "remove_chain_objects")
          => /\ call'.ret = RetInt(Cardinality({key \in DOMAIN chain_objects :
                                                  KeyOfChain(key, call'.name)}))
             /\ NoEntryAdded]_vars

\* remove_chain_objects returned 0 for a chain without entries while the
\* registry held entries of other keys.
C7_Witness ==
  /\ call.op = "remove_chain_objects" /\ call.ret = RetInt(0)
  /\ DOMAIN chain_objects # {}

\* C8: a get_model / get_prompt call whose construction fails raises (an
\* unknown model type: ValueError) and stores nothing under its key, and the
\* next call with the same parameters constructs again or raises again.
C8_FailedCreateStoresNothing ==
  [][(OpStep /\ call'.op \in GetOrCreateOps) =>
       /\ (call'.op = "get_model" /\ call'.name \notin {"openai", "anthropic", "ollama"})
          => call'.ret = RetRaise("ValueError")
       /\ call'.ret.kind = "raise"
          => /\ call'.built = 0 /\ created' = created
             /\ call'.key \notin DOMAIN chain_objects'
             /\ call'.key \notin DOMAIN access_times'
       /\ (call.op = call'.op /\ call.key = call'.key /\ call.ret.kind = "raise")
          => (call'.ret.kind = "raise" \/ call'.built = 1)]_vars

\* A get_prompt call whose constructor raised, after other objects had been
\* constructed: nothing is stored under its key.
C8_Witness ==
  /\ call.op = "get_prompt" /\ call.ret = RetRaise("ConstructorError")
  /\ created > 0 /\ call.key \notin DOMAIN chain_objects

\* C9 as claimed: get_chain_objects(chain_id) returns exactly the live
\* entries stored for the chain by set_chain_object, as (step_index, object)
\* pairs in ascending order of step_index, each index once.
StepKeysOf(chain_id) ==
  {key \in DOMAIN chain_objects : key.ty = "int" /\ key.k0 = chain_id /\ Live(key)}
C9_Claim ==
  [][(OpStep /\ call'.op = "get_chain_objects") =>
       /\ call'.ret.kind = "list"
       /\ \A i, j \in 1..Len(call'.ret.list) :
            i < j => call'.ret.list[i].idx < call'.ret.list[j].idx
       /\ {call'.ret.list[i] : i \in 1..Len(call'.ret.list)} =
            {[idx |-> key.k1, obj |-> chain_objects[key]] : key \in StepKeysOf(call'.name)}]_vars

\* C10 as claimed: remove_chain_objects returns the number of entries it
\* removed, the chain is empty afterwards, and every entry of another chain
\* and every parameter keyed entry keeps its object and its last access.
C10_Claim ==
  [][(OpStep /\ call'.op = "remove_chain_objects") =>
       /\ call'.ret = RetInt(Cardinality(DOMAIN chain_objects \ DOMAIN chain_objects'))
       /\ get_chain_objects(chain_objects', access_times', call'.name, now, lru_hours).ret
            = RetList(<<>>)
       /\ \A key \in DOMAIN chain_objects :
            (key.ty # "int" \/ key.k0 # call'.name) =>
              /\ key \in DOMAIN chain_objects' /\ chain_objects'[key] = chain_objects[key]
              /\ key \in DOMAIN access_times' /\ access_times'[key] = access_times[key]]_vars

\* What the value of CHAIN_CACHE_LRU_HOUR denotes, stated on the text: an
\* integer string is an optional sign and decimal digits (underscores between
\* digits), possibly surrounded by whitespace.
Trimmed(chars) ==
  LET idx == {i \in 1..Len(chars) : chars[i] \notin Whitespace}
  IN IF idx = {} THEN <<>>
     ELSE SubSeq(chars, CHOOSE i \in idx : \A j \in idx : i <= j,
                        CHOOSE i \in idx : \A j \in idx : i >= j)
IsIntegerLiteral(s) ==
  \E signLen \in 0..1 :
    /\ Len(s) > signLen
    /\ signLen = 1 => s[1] \in {"+", "-"}
    /\ \A i \in (signLen + 1)..Len(s) :
         \/ IsDigit(s[i])
         \/ /\ s[i] = "_"
            /\ i > signLen + 1 /\ i < Len(s)
            /\ IsDigit(s[i - 1]) /\ IsDigit(s[i + 1])
RECURSIVE DigitsValue(_)
DigitsValue(s) ==
  IF s = <<>> THEN 0
  ELSE LET front == SubSeq(s, 1, Len(s) - 1)
       IN IF IsDigit(s[Len(s)]) THEN 10 * DigitsValue(front) + DigitVal(s[Len(s)])
          ELSE DigitsValue(front)
LiteralValue(s) == IF s[1] = "-" THEN 0 - DigitsValue(s) ELSE DigitsValue(s)
Creation == instance = NoInstance /\ call'.op = "new" /\ instance' # instance

\* C11: the retention comes from CHAIN_CACHE_LRU_HOUR when the registry is
\* created: unset gives 24 hours, an integer string gives that many hours,
\* and any other value gives 24 hours; creation never raises.
C11_TtlFromEnviron ==
  [][Creation =>
       /\ call'.ret.kind = "obj"
       /\ ~environ.set => lru_hours' = 24
       /\ environ.set /\ IsIntegerLiteral(Trimmed(environ.chars))
            => lru_hours' = LiteralValue(Trimmed(environ.chars))
       /\ environ.set /\ ~IsIntegerLiteral(Trimmed(environ.chars))
            => lru_hours' = 24]_vars

\* the registry has just been created under a value that is no integer
C11_Witness ==
  /\ call.op = "new" /\ call.built = 1 /\ call.ret.kind = "obj"
  /\ environ.set /\ environ.chars # <<>>
  /\ ~IsIntegerLiteral(Trimmed(environ.chars))
  /\ lru_hours = 24

\* C12: the registry is one instance whose configuration is read once: every
\* ComponentRegistry() returns the same instance, and a construction after
\* the first leaves the cached objects, the access times and the retention
\* as they were, whatever CHAIN_CACHE_LRU_HOUR holds by then.
C12_SingleInstance ==
  [][/\ call'.op = "new" /\ call' # call => call'.ret = RetObj(instance')
     /\ instance # NoInstance => instance' = instance
     /\ instance # NoInstance /\ call'.op = "new" /\ call' # call
          => /\ chain_objects' = chain_objects
             /\ access_times' = access_times
             /\ lru_hours' = lru_hours]_vars

\* a later construction met a filled cache and a changed environment
C12_Witness ==
  /\ call.op = "new" /\ call.built = 0
  /\ chain_objects # <<>>
  /\ environ.set /\ IsIntegerLiteral(Trimmed(environ.chars))
  /\ lru_hours # LiteralValue(Trimmed(environ.chars))

\* C13: the results of a query are in order of non-increasing score, and
\* documents of equal score are in the order in which they were inserted.
C13_RankedStable ==
  out.op = "query" =>
    \A i, j \in 1..Len(out.ret) :
      i < j => \/ out.ret[i].score > out.ret[j].score
               \/ /\ out.ret[i].score = out.ret[j].score
                  /\ out.ret[i].pos < out.ret[j].pos

\* a query returned two documents of equal score
C13_Witness ==
  /\ out.op = "query"
  /\ \E i, j \in 1..Len(out.ret) : i < j /\ out.ret[i].score = out.ret[j].score

\* C14: a query returns at most k documents, k being the value the retriever
\* holds when the query is made; it returns the empty sequence, without an
\* error, when the corpus is empty; and assigning k changes no result that
\* was already returned.
C14_AtMostK ==
  [][/\ out'.op = "query" /\ out' # out
          => /\ Len(out'.ret) <= retriever.k
             /\ out'.raised = ""
             /\ retriever.documents = <<>> => out'.ret = <<>>
     /\ retriever'.k # retriever.k => out' = out]_vars

\* k was raised after a query that had more hits than the k of its time
C14_Witness ==
  /\ out.op = "query"
  /\ Len(out.ret) = out.k
  /\ retriever.k > out.k
  /\ Len(Rank(retriever, out.arg, 1, <<>>)) > out.k

\* C15: a retriever that received its documents through add_documents, in
\* one or several calls, answers every query as a retriever constructed from
\* the same document sequence does.
C15_IncrementalConsistency ==
  \A q \in QueryInputs :
    query(retriever, q) = query(BM25SJRetriever(retriever.documents, retriever.k), q)

\* a batch was added to documents of another length that were there before
C15_Witness ==
  /\ out.op = "add_documents"
  /\ out.arg # <<>>
  /\ Len(out.arg) < Len(retriever.documents)
  /\ \E i, j \in 1..Len(retriever.documents) :
       Len(retriever.documents[i]) # Len(retriever.documents[j])

\* C16: load directly after save yields a retriever that answers every query
\* as the saved one does, and load of a missing or damaged file raises and
\* yields no retriever.
C16_SaveLoadRoundTrip ==
  [][out'.op = "load" /\ out' # out
       => /\ out.op = "save"
               => /\ out'.raised = ""
                  /\ \A q \in QueryInputs : query(out'.eng, q) = query(retriever, q)
          /\ files.state \in {"missing", "damaged"}
               => out'.raised # "" /\ out'.eng = NoEngine]_vars

\* a retriever holding documents from several calls was saved and loaded
C16_Witness ==
  /\ out.op = "load"
  /\ out.raised = ""
  /\ files.state = "saved"
  /\ Len(out.eng.documents) >= 2
  /\ out.eng.documents = retriever.documents

\* C17: adding an empty list changes nothing: the retriever's add_documents
\* with no documents leaves the average document length and every score
\* of every query as they were, and Rag.add_documents with no documents
\* returns the Rag at once, the vector store, the retriever and the lock
\* untouched.
C17_EmptyAddChangesNothing ==
  [][/\ out'.op = "add_documents" /\ out'.arg = <<>> /\ out' # out
          => /\ retriever'.index.avgdl = retriever.index.avgdl
             /\ retriever'.documents = retriever.documents
             /\ \A q \in QueryInputs, i \in 1..Len(retriever.documents) :
                  Score(retriever', q, i) = Score(retriever, q, i)
     /\ \A th \in Threads :
          /\ tpc[th] = "idle"
          /\ tloc'[th].op = "add_documents"
          /\ tloc'[th].batch = <<>>
          => /\ tpc'[th] = "done"
             /\ tloc'[th].ret = "self"
             /\ vector_store' = vector_store
             /\ retriever' = retriever
             /\ write_lock' = write_lock]_vars

\* both empty additions were made on a Rag that holds documents
C17_Witness ==
  /\ out.op = "add_documents" /\ out.arg = <<>>
  /\ retriever.documents # <<>>
  /\ vector_store.docs # <<>>
  /\ \E th \in Threads :
       /\ tpc[th] = "done"
       /\ tloc[th].op = "add_documents"
       /\ tloc[th].batch = <<>>
       /\ tloc[th].ret = "self"

UpdateSection == {"vs", "retrievers", "unlock"}
\* C18: concurrent Rag.add_documents calls never overlap: at most one thread
\* is between acquiring and releasing write_lock, and the vector store and
\* the retriever receive the batches whole and in the same order.
C18_SingleWriter ==
  /\ \A t1, t2 \in Threads :
       tpc[t1] \in UpdateSection /\ tpc[t2] \in UpdateSection => t1 = t2
  /\ vector_store.set =>
       /\ (\A th \in Threads : tpc[th] # "retrievers")
            => vector_store.docs = retriever.documents
       /\ \A th \in Threads :
            tpc[th] = "retrievers"
            => vector_store.docs = retriever.documents \o tloc[th].batch

\* one call is in its update section while another waits for the lock
C18_Witness ==
  \E t1, t2 \in Threads :
    /\ tpc[t1] = "retrievers" /\ tloc[t1].batch # <<>>
    /\ tpc[t2] = "lock" /\ tloc[t2].batch # <<>>
    /\ vector_store.set
    /\ vector_store.docs # retriever.documents

\* C19: a query that runs while documents are added sees the vector store
\* and the BM25SJ retriever in one state, both before the batch or both
\* after it.
C19_Claim ==
  \A th \in Threads :
    tpc[th] = "done" /\ tloc[th].op = "query" /\ tloc[th].seen_vs >= 0
    => tloc[th].seen_vs = tloc[th].seen_bm

\* C20: batch_query returns one record per question, in the order of the
\* questions whatever the order in which the workers finish, each record
\* carrying its question; for an empty list it returns an empty list and
\* starts no worker.
C20_BatchInInputOrder ==
  results.returned =>
    /\ Len(results.list) = Len(executor.questions)
    /\ \A i \in 1..Len(results.list) : results.list[i].query = executor.questions[i]
    /\ executor.questions = <<>> => ~executor.created /\ executor.started = 0

\* two different questions were answered and the second worker finished first
C20_Witness ==
  /\ results.returned
  /\ Len(executor.questions) >= 2
  /\ executor.questions[1] # executor.questions[2]
  /\ executor.finished[1] = 2

\* C21: a question whose query raises does not abort the batch: batch_query
\* does not raise, the record of that question has success = False and the
\* error text as result, and the record of every other question is what
\* that question yields on its own.
C21_FailureStaysInItsRecord ==
  executor.phase = "returned" =>
    /\ results.raised = ""
    /\ results.returned
    /\ Len(results.list) = Len(executor.questions)
    /\ \A i \in 1..Len(results.list) :
         /\ results.list[i].query = executor.questions[i]
         /\ ~results.list[i].success => results.list[i].result = <<"error">>
         /\ results.list[i].success
              => results.list[i].result = <<"answer", executor.questions[i]>>

\* the first question failed and the second was answered
C21_Witness ==
  /\ executor.phase = "returned"
  /\ Len(results.list) >= 2
  /\ ~results.list[1].success
  /\ results.list[2].success

\* C22: Rag.add_documents with a non-empty list adds the documents to the
\* configured retrievers and returns the Rag, with and without a vector
\* store.
C22_Claim ==
  \A th \in Threads :
    tpc[th] = "done" /\ tloc[th].op = "add_documents" /\ tloc[th].batch # <<>>
    => /\ tloc[th].exc = ""
       /\ tloc[th].ret = "self"

\* C23: with a reranker section in the configuration, a query of the Rag
\* built from it finds a reranker and passes the documents it retrieved
\* through it.
C23_Claim ==
  reranker.config =>
    \A th \in Threads :
      tpc[th] = "done" /\ tloc[th].op = "query" /\ tloc[th].all_docs # <<>>
      => reranker.obj # NoObj /\ tloc[th].reranked

\* a step that is chain = self | other, returning the new sequence
PipeStep ==
  /\ chain_call'.op = "pipe" /\ chain_call'.raised = ""
  /\ heap[chain_call'.chain] = Free
  /\ heap'[chain_call'.chain].kind = "seq"

\* C24: for a RunnableLambda a that was given a chain id and any b,
\* get_chain_id(a | b) = get_chain_id(a); when a was never given a chain id,
\* get_chain_id(a | b) is "unknown".
C24_Claim ==
  [][PipeStep /\ heap[chain_call'.self].kind = "lambda"
     => LET a == chain_call'.self
            c == chain_call'.chain
        IN /\ heap[a].assigned # Unknown
                => get_chain_id(chain_registry', c) = get_chain_id(chain_registry, a)
           /\ heap[a].assigned = Unknown
                => get_chain_id(chain_registry', c) = Unknown]_vars

\* C25: a pipeline of three or more steps, however it was composed, has the
\* chain id of its leftmost step when that step was given one.
C25_Claim ==
  [][PipeStep /\ heap'[chain_call'.chain].len >= 3
     => LET c == chain_call'.chain
            first == heap'[c].first
        IN heap[first].assigned # Unknown
             => get_chain_id(chain_registry', c) = get_chain_id(chain_registry', first)]_vars

\* C26: get_chain_id(x) returns the chain id most recently given to the object
\* x by set_chain_id, and "unknown" for an object that was never given one,
\* whatever objects were created, registered and discarded before.
C26_Claim ==
  chain_call.op = "get_chain_id" => chain_call.ret = heap[chain_call.chain].assigned

\* C27: for every chain id, "model" and "prompt" included, the result of
\* get_chain_objects(chain_id) holds no entry that get_model or get_prompt
\* created, and remove_chain_objects(chain_id) removes no such entry.
C27_Claim ==
  [][OpStep =>
       /\ call'.op = "get_chain_objects" /\ call'.ret.kind = "list" =>
            \A key \in DOMAIN chain_objects :
              key.ty = "str" =>
                \A i \in 1..Len(call'.ret.list) :
                  call'.ret.list[i] # [idx |-> key.k1, obj |-> chain_objects[key]]
       /\ call'.op = "remove_chain_objects" =>
            \A key \in DOMAIN chain_objects :
              key.ty = "str" => key \in DOMAIN chain_objects']_vars

\* C28: a chat step invoked in a chain that has a chain id does not raise;
\* it leaves an object stored for (chain_id, step index), and when that entry
\* was live before the call it constructs neither a model nor a template.
C28_Claim ==
  [][(OpStep /\ call'.op = "chat" /\ call'.name # "") =>
       /\ call'.ret.kind = "chat"
       /\ call'.key \in DOMAIN chain_objects'
       /\ Live(call'.key) => call'.built = 0]_vars

\* C29: write_lock is held only by a thread inside the update section of
\* add_documents: a call that raised part-way has propagated its exception
\* and released the lock, so a call waiting for the lock finds it free as
\* soon as no call is in the section.
C29_LockNeverLeftHeld ==
  /\ write_lock # 0 => tpc[write_lock] \in UpdateSection
  /\ \A th \in Threads :
       tpc[th] = "done" /\ tloc[th].op = "add_documents" /\ tloc[th].batch # <<>>
       => /\ write_lock # th
          /\ tloc[th].ret = "self" \/ tloc[th].exc # ""
  /\ \A th \in Threads :
       tpc[th] = "lock" /\ (\A o \in Threads : tpc[o] \notin UpdateSection)
       => lock_free(write_lock)

\* a call whose retriever failed after the vector store took the batch has
\* ended, and a later call is inside the update section
C29_Witness ==
  \E t1, t2 \in Threads :
    /\ tpc[t1] = "done" /\ tloc[t1].exc = "RetrieverError"
    /\ tpc[t2] = "vs" /\ write_lock = t2

\* C30: after every registry call the object map and the access time map
\* have the same keys; set_object and set_chain_object leave under their key
\* one object, the one given, with the time of the call, and add no other
\* key.
SetOps == {"set_object", "set_chain_object"}
ObjectsGivenFor(key) ==
  {in[3] : in \in {i \in SetInputs : ChainKey(i[1], i[2]) = key}}
    \cup (IF key \in ParserKeys THEN ParserObjs ELSE {})
C30_MapsAgree ==
  [][/\ DOMAIN access_times = DOMAIN chain_objects
     /\ DOMAIN access_times' = DOMAIN chain_objects'
     /\ (OpStep /\ call'.op \in SetOps) =>
          /\ call'.key \in DOMAIN chain_objects'
          /\ chain_objects'[call'.key] \in ObjectsGivenFor(call'.key)
          /\ access_times'[call'.key] = now
          /\ DOMAIN chain_objects' \subseteq DOMAIN chain_objects \cup {call'.key}]_vars

\* set_chain_object has just replaced a live entry, other entries present
C30_Witness ==
  /\ call.op = "set_chain_object"
  /\ call.age > 0 /\ call.age <= lru_hours
  /\ access_times[call.key] = now
  /\ Cardinality(DOMAIN chain_objects) >= 2

====
